---- MODULE Spec2Model ----
(***************************************************************************)
(* A model of two JupyterLab front-end components:                         *)
(*   - ThemeManager (packages/apputils/src/thememanager.ts): the theme     *)
(*     registry, the settings-driven retry loop of _loadSettings, the      *)
(*     asynchronous _loadTheme and the CSS overrides;                      *)
(*   - HTMLViewer (packages/htmlviewer/src/index.ts): the sandboxed        *)
(*     iframe, the activity-monitor debounce and the render pipeline.      *)
(* Each handler of the code is one action. A promise callback that runs   *)
(* _loadSettings is an action of its own, taken before any other event;    *)
(* the callbacks that only finish a promise (_current and themeChanged in  *)
(* _loadTheme, _renderPending in onUpdateRequest) are part of the action   *)
(* that settles it.                                                        *)
(***************************************************************************)
EXTENDS Integers, Sequences, FiniteSets, TLC

\* ------------------------------------------------------------------ bounds
\* At most this many register() calls are explored.
MaxRegs == 2
\* At most this many settings changes are explored.
MaxChanges == 2
\* At most this many changes of the HTML document are explored.
MaxEdits == 3

\* ------------------------------------------------------- program constants
REQUEST_THRESHOLD == 20

\* Theme names used by the settings and by the theme plugins.
Names == {"A", "D"}
\* settings.default('theme'): the schema's default theme.
DefaultTheme == "D"
\* _current === null
NoTheme == "none"
\* _outstanding === null, and _outstanding referring to a settled promise
NoPromise == 0
Settled == -1
LoadIds == 1..4

VARIABLES
  loaded,        \* registry.load(key) has resolved: _settings is set and connected
  cfg,           \* settings.composite['theme']
  nchanges,      \* settings changes so far (bounded by MaxChanges)
  themes,        \* _themes: name -> theme object (0: no entry); the object passed to
                 \* the k-th register call that made an entry is object k
  disposables,   \* the DisposableDelegates returned by register, in order
  current,       \* _current
  pending,       \* _pending # 0: a retry timer is scheduled
  outstanding,   \* _outstanding
  requests,      \* _requests: name -> counter (0: no entry)
  loads,         \* the _loadTheme promises that have not settled
  micro,         \* the promise callback queued to run next: none, then, catch
  effects,       \* what the last step did to the outside: signals, dialogs, calls, throws
  \* --- ThemeManager, CSS overrides
  user,          \* settings.user['overrides']: key -> value (Absent: no entry)
  overrides,     \* _overrides
  style,         \* document.documentElement.style: key -> value of --jp-<key>
  cssCall,       \* the call made by the last step
  \* --- HTMLViewer
  iframeSandbox,     \* content.sandbox
  iframeExceptions,  \* content.exceptions
  ctxReady,      \* context.ready has resolved and its callback has run
  content,       \* context.model: the version of the document text
  monitor,       \* _monitor # null
  timerArmed,    \* the activity monitor's timeout is running
  updatePosted,  \* an UpdateRequest message is posted and not yet delivered
  renderPending, \* _renderPending
  render,        \* the _renderModel call in progress
  objectUrl,     \* _objectUrl (0: '')
  iframeUrl,     \* content.url (0: '')
  blobs,         \* the object URLs created so far: URL i refers to blobs[i]
  revoked,       \* the object URLs revoked so far
  calls          \* the calls made by the last step of the viewer

tmVars == <<loaded, cfg, nchanges, themes, disposables, current,
            pending, outstanding, requests, loads, micro, effects>>

ovVars == <<user, overrides, style, cssCall>>

hvVars == <<iframeSandbox, iframeExceptions, ctxReady, content, monitor, timerArmed,
            updatePosted, renderPending, render, objectUrl, iframeUrl, blobs,
            revoked, calls>>

vars == <<tmVars, ovVars, hvVars>>

\* ----------------------------------------------------------------- effects
Effect(type, theme, old, n) == [type |-> type, theme |-> theme, old |-> old, n |-> n]
\* _themeChanged.emit({name: 'theme', oldValue, newValue})
Emit(old, new) == Effect("emit", new, old, 0)
\* _onError(reason): showDialog('Error Loading Theme')
Dialog(kind, theme) == Effect(kind, theme, NoTheme, 0)
\* themes[theme].load() / themes[current].unload() was called
CallLoad(theme) == Effect("load", theme, NoTheme, 0)
CallUnload(theme) == Effect("unload", theme, NoTheme, 0)
\* an exception left the handler
Throw(kind, theme) == Effect(kind, theme, NoTheme, 0)
\* _loadSettings passed the outstanding gate: the n-th request for theme
Attempt(theme, n) == Effect("attempt", theme, NoTheme, n)
\* register(theme) was called with a theme object of this name
RegisterCall(name) == Effect("register", name, NoTheme, 0)

\* ------------------------------------------------------------ _loadTheme
\* The manager's mutable fields, threaded through one handler.
Fields == [current |-> current, pending |-> pending, outstanding |-> outstanding,
           requests |-> requests, loads |-> loads, effects |-> {},
           threw |-> FALSE, micro |-> FALSE, promise |-> NoPromise]

FreshId(m) == CHOOSE i \in LoadIds : \A l \in m.loads : l.id # i

\* _loadTheme(theme): themes[theme] exists. themes[current].unload() is a call on
\* undefined when the current theme has been unregistered: a TypeError leaves
\* _loadTheme before any promise is made.
LoadTheme(m, theme) ==
  IF m.current # NoTheme /\ themes[m.current] = 0
  THEN [m EXCEPT !.threw = TRUE,
                 !.effects = @ \cup {Throw("typeerror", m.current)}]
  ELSE LET id == FreshId(m)
       IN [m EXCEPT !.loads = @ \cup {[id |-> id, theme |-> theme,
                                        old |-> m.current, waiter |-> FALSE]},
                    !.promise = id,
                    !.effects = @ \cup {CallLoad(theme)}
                                  \cup (IF m.current = NoTheme THEN {}
                                        ELSE {CallUnload(m.current)})]

\* ---------------------------------------------------------- _loadSettings
\* One run of _loadSettings() with settings.composite['theme'] = theme.
LoadSettingsOnce(m, theme) ==
  LET m0 == [m EXCEPT !.pending = FALSE]
  IN IF m0.outstanding # NoPromise
     THEN \* outstanding.then(_loadSettings).catch(_loadSettings); _outstanding = null
          IF m0.outstanding = Settled
          THEN [m0 EXCEPT !.outstanding = NoPromise, !.micro = TRUE]
          ELSE [m0 EXCEPT !.outstanding = NoPromise,
                          !.loads = {IF l.id = m0.outstanding
                                     THEN [l EXCEPT !.waiter = TRUE] ELSE l : l \in @}]
     ELSE LET n  == m0.requests[theme] + 1
              m1 == [m0 EXCEPT !.requests[theme] = n,
                               !.effects = @ \cup {Attempt(theme, n)}]
          IN IF themes[theme] # 0
             THEN LET r == LoadTheme(m1, theme)
                  IN IF r.threw THEN r
                     ELSE [r EXCEPT !.outstanding = r.promise, !.requests[theme] = 0]
             ELSE IF n > REQUEST_THRESHOLD
             THEN LET m2 == [m1 EXCEPT !.requests[theme] = 0]
                  IN IF themes[DefaultTheme] = 0
                     THEN [m2 EXCEPT !.effects = @ \cup {Dialog("neither", theme)}]
                     ELSE LET r == LoadTheme(m2, DefaultTheme)
                          IN IF r.threw THEN r
                             ELSE [r EXCEPT !.outstanding = r.promise]
             ELSE [m1 EXCEPT !.pending = TRUE]

\* The microtask queue after a run of _loadSettings: a callback attached to a
\* promise that has already settled is queued at once.
Queued(m) == IF m.micro THEN "then" ELSE "none"

Commit(m) ==
  /\ current' = m.current
  /\ pending' = m.pending
  /\ outstanding' = m.outstanding
  /\ requests' = m.requests
  /\ loads' = m.loads
  /\ effects' = m.effects

\* ------------------------------------------------------------ the actions
\* JavaScript runs queued promise callbacks before any other event.
Idle == micro = "none"

\* constructor: registry.load(key).then(...) connects and calls _loadSettings.
SettingsLoaded ==
  /\ Idle
  /\ ~loaded
  /\ loaded' = TRUE
  /\ LET r == LoadSettingsOnce(Fields, cfg)
     IN Commit(r) /\ micro' = Queued(r)
  /\ UNCHANGED <<cfg, nchanges, themes, disposables, ovVars, hvVars>>

\* setTheme(name): settings.set('theme', name); settings.changed -> _loadSettings.
SetTheme(name) ==
  /\ Idle
  /\ loaded
  /\ nchanges < MaxChanges
  /\ nchanges' = nchanges + 1
  /\ cfg' = name
  /\ LET r == LoadSettingsOnce(Fields, name)
     IN Commit(r) /\ micro' = Queued(r)
  /\ UNCHANGED <<loaded, themes, disposables, ovVars, hvVars>>

\* settings.changed fires for a setting other than 'theme' (toggleThemeScrollbars,
\* setCSSOverride, an edit of the settings file): the theme setting keeps its value.
OtherSettingChanged ==
  /\ Idle
  /\ loaded
  /\ nchanges < MaxChanges
  /\ nchanges' = nchanges + 1
  /\ LET r == LoadSettingsOnce(Fields, cfg)
     IN Commit(r) /\ micro' = Queued(r)
  /\ UNCHANGED <<loaded, cfg, themes, disposables, ovVars, hvVars>>

\* outstanding.then(() => this._loadSettings()): the callback runs; when it throws,
\* the promise it returns rejects and the .catch callback is queued.
RunThen ==
  /\ micro = "then"
  /\ LET r == LoadSettingsOnce(Fields, cfg)
     IN Commit(r) /\ micro' = IF r.threw THEN "catch" ELSE Queued(r)
  /\ UNCHANGED <<loaded, cfg, nchanges, themes, disposables, ovVars, hvVars>>

\* .catch(() => this._loadSettings()): _loadSettings runs again.
RunCatch ==
  /\ micro = "catch"
  /\ LET r == LoadSettingsOnce(Fields, cfg)
     IN Commit(r) /\ micro' = Queued(r)
  /\ UNCHANGED <<loaded, cfg, nchanges, themes, disposables, ovVars, hvVars>>

\* The retry timer set by _loadSettings fires.
TimerFires ==
  /\ Idle
  /\ pending
  /\ LET r == LoadSettingsOnce(Fields, cfg)
     IN Commit(r) /\ micro' = Queued(r)
  /\ UNCHANGED <<loaded, cfg, nchanges, themes, disposables, ovVars, hvVars>>

\* The promise of a _loadTheme settles: Promise.all([old, load]) resolved (ok) and
\* the .then callback sets _current and emits themeChanged, or it rejected and the
\* .catch callback reports the error. Either way the promise resolves, and the
\* callback _loadSettings chained on it, if any, is queued.
Settle(l, ok) ==
  /\ Idle
  /\ l \in loads
  /\ loads' = loads \ {l}
  /\ outstanding' = IF outstanding = l.id THEN Settled ELSE outstanding
  /\ current' = IF ok THEN l.theme ELSE current
  /\ effects' = IF ok THEN {Emit(l.old, l.theme)} ELSE {Dialog("loadfailed", l.theme)}
  /\ micro' = IF l.waiter THEN "then" ELSE "none"
  /\ UNCHANGED <<loaded, cfg, nchanges, themes, disposables, pending, requests, ovVars, hvVars>>

LoadResolves == \E l \in loads : Settle(l, TRUE)

LoadRejects == \E l \in loads : Settle(l, FALSE)

\* register(theme) without the check of line 156: the entry is overwritten.
RegisterOverwrites(name) ==
  /\ Idle
  /\ Len(disposables) < MaxRegs
  /\ themes' = [themes EXCEPT ![name] = Len(disposables) + 1]
  /\ disposables' = Append(disposables, [name |-> name, disposed |-> FALSE])
  /\ effects' = {RegisterCall(name)}
  /\ UNCHANGED <<loaded, cfg, nchanges, current, pending, outstanding,
                 requests, loads, micro, ovVars, hvVars>>

\* register(theme)
Register(name) ==
  /\ Idle
  /\ Len(disposables) < MaxRegs
  /\ IF themes[name] # 0
     THEN /\ effects' = {RegisterCall(name), Throw("already", name)}
          /\ UNCHANGED <<themes, disposables>>
     ELSE /\ themes' = [themes EXCEPT ![name] = Len(disposables) + 1]
          /\ disposables' = Append(disposables, [name |-> name, disposed |-> FALSE])
          /\ effects' = {RegisterCall(name)}
  /\ UNCHANGED <<loaded, cfg, nchanges, current, pending, outstanding,
                 requests, loads, micro, ovVars, hvVars>>

\* dispose() running delete themes[name] on every call.
DisposeEveryTime(i) ==
  /\ Idle
  /\ themes' = [themes EXCEPT ![disposables[i].name] = 0]
  /\ disposables' = [disposables EXCEPT ![i].disposed = TRUE]
  /\ effects' = {}
  /\ UNCHANGED <<loaded, cfg, nchanges, current, pending, outstanding,
                 requests, loads, micro, ovVars, hvVars>>

\* dispose() of the i-th DisposableDelegate: the delegate runs its callback,
\* delete themes[name], on the first call only.
Dispose(i) ==
  /\ Idle
  /\ IF disposables[i].disposed
     THEN UNCHANGED <<themes, disposables>>
     ELSE /\ themes' = [themes EXCEPT ![disposables[i].name] = 0]
          /\ disposables' = [disposables EXCEPT ![i].disposed = TRUE]
  /\ effects' = {}
  /\ UNCHANGED <<loaded, cfg, nchanges, current, pending, outstanding,
                 requests, loads, micro, ovVars, hvVars>>

\* ------------------------------------------------------- CSS overrides
\* The override keys explored, spelled out so that key.includes(p) is computed.
Keys == {"color0", "font-size", "width"}
\* The override values explored; '' is a string that JavaScript treats as false.
Values == {"red", ""}
\* obj[key] === undefined
Absent == "undefined"

Spelling ==
  [k \in Keys \cup {"color", "font-family", "size"} |->
     CASE k = "color0"      -> <<"c", "o", "l", "o", "r", "0">>
       [] k = "font-size"   -> <<"f", "o", "n", "t", "-", "s", "i", "z", "e">>
       [] k = "width"       -> <<"w", "i", "d", "t", "h">>
       [] k = "color"       -> <<"c", "o", "l", "o", "r">>
       [] k = "font-family" -> <<"f", "o", "n", "t", "-", "f", "a", "m", "i", "l", "y">>
       [] k = "size"        -> <<"s", "i", "z", "e">>]

\* String.prototype.includes
Includes(s, p) ==
  \E i \in 0..(Len(s) - Len(p)) : SubSeq(s, i + 1, i + Len(p)) = p

cssProps == <<"color", "font-family", "size">>

\* CSS.supports(prop, val) of the browser: 'size' is no CSS property, so no value
\* is supported for it.
CSSSupports(prop, val) ==
  <<prop, val>> \in {<<"color", "red">>, <<"font-family", "red">>}

\* ThemeManager.validateCSS(key, val): the first of cssProps that the key includes,
\* then CSS.supports.
ValidateCSS(key, val) ==
  LET found == {i \in 1..Len(cssProps) : Includes(Spelling[key], Spelling[cssProps[i]])}
  IN IF found = {} THEN FALSE
     ELSE LET first == CHOOSE i \in found : \A j \in found : i <= j
          IN CSSSupports(cssProps[first], val)

KeysOf(dict) == {k \in Keys : dict[k] # Absent}

\* The forEach run over the keys of the new overrides only.
StyleAfterLoadNewKeysOnly(css, old, new) ==
  [k \in Keys |->
     IF k \in KeysOf(new)
     THEN IF new[k] # "" /\ ValidateCSS(k, new[k]) THEN new[k] ELSE Absent
     ELSE css[k]]

\* The forEach of loadCSSOverrides over the union of the keys: the style after it.
\* if (newOverrides[key]) is false for a missing entry and for ''.
StyleAfterLoad(css, old, new) ==
  [k \in Keys |->
     IF k \in KeysOf(old) \cup KeysOf(new)
     THEN IF new[k] # Absent /\ new[k] # ""
          THEN IF ValidateCSS(k, new[k]) THEN new[k] ELSE Absent
          ELSE Absent
     ELSE css[k]]

\* loadCSSOverrides()
LoadCSSOverrides ==
  /\ loaded
  /\ style' = StyleAfterLoad(style, overrides, user)
  /\ overrides' = user
  /\ cssCall' = "loadCSSOverrides"
  /\ UNCHANGED <<user, tmVars, hvVars>>

\* setCSSOverride(key, value): _overrides[key] = value, then
\* settings.set('overrides', _overrides).
SetCSSOverride(key, value) ==
  /\ loaded
  /\ overrides' = [overrides EXCEPT ![key] = value]
  /\ user' = overrides'
  /\ cssCall' = "setCSSOverride"
  /\ UNCHANGED <<style, tmVars, hvVars>>

\* The user edits the overrides in the settings file: an entry is set or removed.
EditOverrides(key, value) ==
  /\ user' = [user EXCEPT ![key] = value]
  /\ cssCall' = "edit"
  /\ UNCHANGED <<overrides, style, tmVars, hvVars>>

\* Other code of the page sets or removes --jp-<key> on the document element.
PageSetsStyle(key, value) ==
  /\ style' = [style EXCEPT ![key] = value]
  /\ cssCall' = "page"
  /\ UNCHANGED <<user, overrides, tmVars, hvVars>>

\* ------------------------------------------------------------- HTMLViewer
\* An exception list that also lets the document run scripts.
SandboxExceptionsWithScripts == {"allow-same-origin", "allow-scripts"}

\* new IFrame({sandbox: true, exceptions: ['allow-same-origin']})
SandboxExceptions == {"allow-same-origin"}

\* contentChanged connected to this.update as well as to the monitor.
ContentChangedSlotsWithUpdate == IF monitor THEN {"monitor", "update"} ELSE {}

\* The slots connected to context.model.contentChanged: the activity monitor, once
\* the context is ready.
ContentChangedSlots == IF monitor THEN {"monitor"} ELSE {}

\* The slots connected to _monitor.activityStopped: this.update.
ActivityStoppedSlots == {"update"}

\* ActivityMonitor, on a signal: clearTimeout, then setTimeout(timeout). One
\* timeout is running afterwards.
MonitorSignalFired(armed) == TRUE

NoRender == [phase |-> "idle", data |-> 0]

\* _setBase(data): the document with a <base> whose href is the download URL.
SetBase(data) == [doc |-> data, base |-> "downloadUrl"]

\* context.ready.then(...): update(), then the monitor is made and connected.
ContextReady ==
  /\ ~ctxReady
  /\ ctxReady' = TRUE
  /\ updatePosted' = TRUE
  /\ monitor' = TRUE
  /\ calls' = {"update"}
  /\ UNCHANGED <<iframeSandbox, iframeExceptions, content, timerArmed, renderPending,
                 render, objectUrl, iframeUrl, blobs, revoked, tmVars, ovVars>>

\* The document changes: context.model.contentChanged is emitted.
ContentChanged ==
  /\ content < MaxEdits
  /\ content' = content + 1
  /\ timerArmed' = IF "monitor" \in ContentChangedSlots
                   THEN MonitorSignalFired(timerArmed) ELSE timerArmed
  /\ updatePosted' = (updatePosted \/ "update" \in ContentChangedSlots)
  /\ calls' = IF "update" \in ContentChangedSlots THEN {"update"} ELSE {}
  /\ UNCHANGED <<iframeSandbox, iframeExceptions, ctxReady, monitor, renderPending,
                 render, objectUrl, iframeUrl, blobs, revoked, tmVars, ovVars>>

\* The monitor's timeout elapses with no change in between: activityStopped is
\* emitted.
ActivityStopped ==
  /\ timerArmed
  /\ timerArmed' = FALSE
  /\ updatePosted' = (updatePosted \/ "update" \in ActivityStoppedSlots)
  /\ calls' = IF "update" \in ActivityStoppedSlots THEN {"update"} ELSE {}
  /\ UNCHANGED <<iframeSandbox, iframeExceptions, ctxReady, content, monitor,
                 renderPending, render, objectUrl, iframeUrl, blobs, revoked,
                 tmVars, ovVars>>

\* The posted UpdateRequest is delivered: onUpdateRequest(). _renderModel reads the
\* model and runs up to the await of getDownloadUrl.
OnUpdateRequest ==
  /\ updatePosted
  /\ updatePosted' = FALSE
  /\ IF renderPending
     THEN /\ calls' = {}
          /\ UNCHANGED <<renderPending, render>>
     ELSE /\ renderPending' = TRUE
          /\ render' = [phase |-> "setBase", data |-> content]
          /\ calls' = {"renderModel"}
  /\ UNCHANGED <<iframeSandbox, iframeExceptions, ctxReady, content, monitor,
                 timerArmed, objectUrl, iframeUrl, blobs, revoked, tmVars, ovVars>>

\* _renderModel without lines 96-102: the old object URL is never released.
RenderCompletesKeepsOldUrl ==
  /\ render.phase = "setBase"
  /\ LET url == Len(blobs) + 1
     IN /\ blobs' = Append(blobs, SetBase(render.data))
        /\ objectUrl' = url
        /\ iframeUrl' = url
  /\ render' = NoRender
  /\ renderPending' = FALSE
  /\ calls' = {"createObjectURL"}
  /\ UNCHANGED <<iframeSandbox, iframeExceptions, ctxReady, content, monitor,
                 timerArmed, updatePosted, revoked, tmVars, ovVars>>

\* getDownloadUrl resolves: _renderModel makes the blob, swaps the object URL,
\* revokes the old one and resolves; the .then callback clears _renderPending.
RenderCompletes ==
  /\ render.phase = "setBase"
  /\ LET url == Len(blobs) + 1
     IN /\ blobs' = Append(blobs, SetBase(render.data))
        /\ objectUrl' = url
        /\ iframeUrl' = url
        /\ revoked' = IF objectUrl # 0 THEN revoked \cup {objectUrl} ELSE revoked
  /\ render' = NoRender
  /\ renderPending' = FALSE
  /\ calls' = {"createObjectURL"} \cup (IF objectUrl # 0 THEN {"revokeObjectURL"} ELSE {})
  /\ UNCHANGED <<iframeSandbox, iframeExceptions, ctxReady, content, monitor,
                 timerArmed, updatePosted, tmVars, ovVars>>

\* getDownloadUrl rejects: _renderModel rejects and the .then callback never runs.
RenderFails ==
  /\ render.phase = "setBase"
  /\ render' = NoRender
  /\ calls' = {}
  /\ UNCHANGED <<iframeSandbox, iframeExceptions, ctxReady, content, monitor,
                 timerArmed, updatePosted, renderPending, objectUrl, iframeUrl,
                 blobs, revoked, tmVars, ovVars>>

\* ------------------------------------------------------- specifications
Init ==
  /\ loaded = FALSE
  /\ cfg \in Names
  /\ nchanges = 0
  /\ themes = [n \in Names |-> 0]
  /\ disposables = <<>>
  /\ current = NoTheme
  /\ pending = FALSE
  /\ outstanding = NoPromise
  /\ requests = [n \in Names |-> 0]
  /\ loads = {}
  /\ micro = "none"
  /\ effects = {}
  /\ user = [k \in Keys |-> Absent]
  /\ overrides = [k \in Keys |-> Absent]
  /\ style = [k \in Keys |-> Absent]
  /\ cssCall = "none"
  /\ iframeSandbox = TRUE
  /\ iframeExceptions = SandboxExceptions
  /\ ctxReady = FALSE
  /\ content = 0
  /\ monitor = FALSE
  /\ timerArmed = FALSE
  /\ updatePosted = FALSE
  /\ renderPending = FALSE
  /\ render = NoRender
  /\ objectUrl = 0
  /\ iframeUrl = 0
  /\ blobs = <<>>
  /\ revoked = {}
  /\ calls = {}

Next ==
  \/ SettingsLoaded
  \/ \E name \in Names : SetTheme(name)
  \/ OtherSettingChanged
  \/ TimerFires
  \/ RunThen
  \/ RunCatch
  \/ LoadResolves
  \/ LoadRejects
  \/ \E name \in Names : Register(name)
  \/ \E i \in 1..Len(disposables) : Dispose(i)

Spec == Init /\ [][Next]_vars

\* Every theme load() and unload() promise resolves: no _loadTheme is rejected.
NextResolve ==
  \/ SettingsLoaded
  \/ \E name \in Names : SetTheme(name)
  \/ OtherSettingChanged
  \/ TimerFires
  \/ RunThen
  \/ RunCatch
  \/ LoadResolves
  \/ \E name \in Names : Register(name)
  \/ \E i \in 1..Len(disposables) : Dispose(i)

SpecResolve == Init /\ [][NextResolve]_vars

\* The CSS overrides of the theme manager.
NextOverrides ==
  \/ SettingsLoaded
  \/ LoadCSSOverrides
  \/ \E key \in Keys, value \in Values : SetCSSOverride(key, value)
  \/ \E key \in Keys, value \in Values \cup {Absent} : EditOverrides(key, value)
  \/ \E key \in Keys, value \in {"red", Absent} : PageSetsStyle(key, value)

SpecOverrides == Init /\ [][NextOverrides]_vars

\* The HTML viewer.
NextViewer ==
  \/ ContextReady
  \/ ContentChanged
  \/ ActivityStopped
  \/ OnUpdateRequest
  \/ RenderCompletes
  \/ RenderFails

SpecViewer == Init /\ [][NextViewer]_vars

\* ------------------------------------------------------------------ claims
Registered == {n \in Names : themes[n] # 0}

\* C1: register(theme) throws when a theme of that name is registered, and then
\* the registered themes and the object registered under the name are unchanged.
C1_RegisterDuplicateThrows ==
  [][\A n \in Names :
       (themes[n] # 0 /\ RegisterCall(n) \in effects')
         => /\ Throw("already", n) \in effects'
            /\ themes' = themes
            /\ disposables' = disposables]_vars

\* A register call under a registered name was refused and the entry is there.
C1_Witness ==
  \E n \in Names :
    /\ {RegisterCall(n), Throw("already", n)} \subseteq effects
    /\ themes[n] # 0

\* The names of the disposables that have not been disposed.
LiveNames == {disposables[i].name : i \in {j \in 1..Len(disposables) : ~disposables[j].disposed}}

\* The first dispose() of a disposable removes its name and no other.
DisposeRemovesOwnName ==
  \A i \in 1..Len(disposables) :
    (~disposables[i].disposed /\ Len(disposables') >= i /\ disposables'[i].disposed)
      => themes' = [themes EXCEPT ![disposables[i].name] = 0]

\* C2: after any register calls and disposals, themes lists exactly the names
\* registered and not disposed; the first dispose() of a disposable removes its
\* name and no other, and a later dispose() of it changes nothing.
C2_ThemesAreLiveRegistrations ==
  [][Registered' = LiveNames' /\ DisposeRemovesOwnName]_vars

\* A name was registered, disposed and registered again; its first disposable is
\* disposed and the name is listed.
C2_Witness ==
  \E i, j \in 1..Len(disposables) :
    /\ i < j
    /\ disposables[i].name = disposables[j].name
    /\ disposables[i].disposed
    /\ ~disposables[j].disposed
    /\ disposables[j].name \in Registered

\* C3: every themeChanged emission has newValue different from oldValue.
C3_EmitOnlyOnChange ==
  \A e \in effects : e.type = "emit" => e.theme # e.old

\* C6: with no settings change, an unregistered configured theme is attempted at
\* most REQUEST_THRESHOLD times: the counter of line 278 numbers the attempts.
C6_AtMostThresholdAttempts ==
  \A e \in effects :
    (e.type = "attempt" /\ nchanges = 0 /\ themes[e.theme] = 0)
       => e.n <= REQUEST_THRESHOLD

\* C8: at most one _loadTheme is in flight at any time.
C8_LoadsSerialized == Cardinality(loads) <= 1

\* Nothing is left to run: no retry timer, no load in flight, no callback queued.
\* Such a state changes only by a settings change or a registration, so it is
\* where the manager stays when settings stop changing.
Quiescent == loaded /\ ~pending /\ loads = {} /\ micro = "none"

\* C9: with every load and unload resolving, once nothing is left to run and the
\* configured theme is registered, the current theme is the configured theme.
C9_SettlesOnConfiguredTheme ==
  (Quiescent /\ themes[cfg] # 0) => current = cfg

\* This step is a run of _loadSettings in which the counter of the unregistered
\* theme t exceeds REQUEST_THRESHOLD.
GivesUp(t) ==
  /\ themes[t] = 0
  /\ \E e \in effects' : e.type = "attempt" /\ e.theme = t /\ e.n > REQUEST_THRESHOLD

\* C10: when the counter of the unregistered configured theme exceeds
\* REQUEST_THRESHOLD the manager stops tracking it and loads the default theme if
\* it is registered; otherwise it reports 'Neither theme ... nor default ...
\* loaded.', starts no load, schedules no retry and keeps the current theme.
C10_GiveUpLoadsDefaultOrReports ==
  [][\A t \in Names :
       GivesUp(t) =>
         /\ requests'[t] = 0
         /\ IF themes[DefaultTheme] # 0
            THEN /\ CallLoad(DefaultTheme) \in effects'
                 /\ outstanding' \in LoadIds
            ELSE /\ Dialog("neither", t) \in effects'
                 /\ loads' = loads
                 /\ outstanding' = NoPromise
                 /\ ~pending'
                 /\ current' = current]_vars

\* C4: in every state of the viewer the iframe is sandboxed and 'allow-same-origin'
\* is its only exception, so scripts and popups are never allowed.
C4_IframeSandboxed ==
  /\ iframeSandbox
  /\ iframeExceptions = {"allow-same-origin"}
  /\ iframeExceptions \cap {"allow-scripts", "allow-popups"} = {}

\* Two different versions of the document have been rendered and the iframe shows
\* the second object URL.
C4_Witness ==
  /\ Len(blobs) >= 2
  /\ blobs[1].doc # blobs[2].doc
  /\ iframeUrl = 2
  /\ iframeSandbox

\* C5: after loadCSSOverrides(), for every key of the previous overrides or of the
\* settings' overrides, --jp-<key> is the settings value when there is one and
\* validateCSS accepts it, and is removed otherwise; other variables are
\* untouched; the manager's overrides are the settings' overrides.
C5_LoadCSSOverridesSetsOrRemoves ==
  [][cssCall' = "loadCSSOverrides" =>
       /\ \A k \in Keys :
            IF k \in KeysOf(overrides) \cup KeysOf(user)
            THEN style'[k] = IF user[k] # Absent /\ ValidateCSS(k, user[k])
                             THEN user[k] ELSE Absent
            ELSE style'[k] = style[k]
       /\ overrides' = user
       /\ user' = user]_vars

\* loadCSSOverrides() has set a valid override, removed the variable of an invalid
\* one and of one taken out of the settings, and left another variable alone.
C5_Witness ==
  /\ cssCall = "loadCSSOverrides"
  /\ overrides["color0"] = "red" /\ style["color0"] = "red"
  /\ overrides["font-size"] = "red" /\ style["font-size"] = Absent
  /\ overrides["width"] = Absent /\ style["width"] = "red"

\* C7: a change of the document starts no update and no render by itself; update()
\* is called only when the context becomes ready and when the activity monitor's
\* timeout elapses; every change after ready leaves one timeout running, which
\* calls update() once when it elapses; nothing is posted before ready.
C7_RenderIsDebounced ==
  [][/\ content' # content =>
          /\ calls' \cap {"update", "renderModel"} = {}
          /\ updatePosted' = updatePosted
          /\ render' = render
          /\ renderPending' = renderPending
          /\ iframeUrl' = iframeUrl
     /\ "update" \in calls' =>
          \/ timerArmed /\ ~timerArmed'
          \/ ~ctxReady /\ ctxReady'
     /\ (ctxReady /\ content' # content) => timerArmed'
     /\ (timerArmed /\ ~timerArmed') => ("update" \in calls' /\ content' = content)
     /\ ~ctxReady' => (~timerArmed' /\ ~updatePosted')]_vars

\* After the first render, a burst of two changes was followed by one update
\* request from the monitor.
C7_Witness ==
  /\ ctxReady
  /\ objectUrl # 0
  /\ content >= blobs[objectUrl].doc + 2
  /\ calls = {"update"}
  /\ updatePosted
  /\ ~timerArmed

\* ------------------------------------------------ the polling loop ends
\* The JavaScript event loop runs every queued promise callback and fires every
\* timer that stays scheduled; nothing obliges a theme's load() to settle.
SpecFair ==
  /\ Spec
  /\ WF_vars(TimerFires)
  /\ WF_vars(RunThen)
  /\ WF_vars(RunCatch)

\* The last run of _loadSettings ended the polling in a load of the configured
\* theme, a load of the default theme, or the error report.
LoopEnded ==
  \/ CallLoad(cfg) \in effects
  \/ CallLoad(DefaultTheme) \in effects
  \/ \E t \in Names : Dialog("neither", t) \in effects

\* C11 (termination alone): a scheduled retry timer does not stay scheduled
\* forever; settings changes are bounded by MaxChanges, so they stop.
PollingStops == pending ~> ~pending

\* C11: once settings stop changing, a pending retry timer leads to a state with
\* no retry timer pending, reached by a load of the configured theme, a load of
\* the default theme, or an error report.
C11_PollingEndsInLoadOrReport == pending ~> (~pending /\ LoopEnded)

\* --------------------------------------------- the viewer shows the model
\* The HTML viewer with every getDownloadUrl resolving: no render is rejected.
NextRender ==
  \/ ContextReady
  \/ ContentChanged
  \/ ActivityStopped
  \/ OnUpdateRequest
  \/ RenderCompletes

SpecRender == Init /\ [][NextRender]_vars

\* The context is ready, the monitor's timeout is not running, no update request
\* is posted and no _renderModel is in progress: nothing is left to run until
\* the document changes again.
ViewerQuiescent ==
  /\ ctxReady
  /\ ~timerArmed
  /\ ~updatePosted
  /\ render.phase = "idle"

\* The document shown by the iframe is the model's current content.
ShowsLatest == iframeUrl # 0 /\ blobs[iframeUrl].doc = content

\* C12: once the content changes have ceased and every render has finished, the
\* iframe shows the latest content of the model; a change whose update request
\* arrived during an earlier render is not lost.
C12_ShowsLatestContent == ViewerQuiescent => ShowsLatest

\* ------------------------------------------------------- the object URLs
\* The object URLs made by URL.createObjectURL and not released since.
LiveUrls == {u \in 1..Len(blobs) : u \notin revoked}

\* C13: a completed render leaves the iframe on the object URL that render
\* created, with the object URL held before it revoked; in every state at most
\* one created and not revoked object URL exists, and the iframe's url is not a
\* revoked one.
C13_ObjectUrlSwapped ==
  /\ [](Cardinality(LiveUrls) <= 1 /\ iframeUrl \notin revoked)
  /\ [][Len(blobs') = Len(blobs) + 1
          => /\ iframeUrl' = Len(blobs')
             /\ objectUrl' = iframeUrl'
             /\ objectUrl # 0 => objectUrl \in revoked']_vars

\* A second render has completed: the iframe is on its URL and the first URL
\* has been revoked by it.
C13_Witness ==
  /\ Len(blobs) >= 2
  /\ "revokeObjectURL" \in calls
  /\ iframeUrl = Len(blobs)
  /\ LiveUrls = {iframeUrl}

====
